---- MODULE Spec2Model ----
(***************************************************************************)
(* The overscroll stretch shader of libs/renderengine/skia/filters/        *)
(* StretchShaderFactory.cpp: the SkSL coordinate transform                 *)
(* (computeOverscroll, main) and the factory that derives its uniforms     *)
(* (StretchShaderFactory::createSkShader).                                 *)
(*                                                                         *)
(* A float is modelled as an exact rational <<numerator, denominator>> in  *)
(* lowest terms with a positive denominator, or as NaN (<<0, 0>>), the     *)
(* non-finite result of a division by zero.  Rounding is not modelled.     *)
(***************************************************************************)
EXTENDS Integers, Sequences, FiniteSets, TLC

VARIABLES
    CONTENT_DISTANCE_STRETCHED, \* StretchEffect::CONTENT_DISTANCE_STRETCHED
    mBuilder,                   \* StretchShaderFactory::mBuilder
    call,                       \* the arguments of the last createSkShader call
    ret,                        \* what the last createSkShader call returned
    coord,                      \* the pixel coordinate main was last run on
    frag,                       \* the locals and result of that run of main
    nBuilders,                  \* how many SkRuntimeShaderBuilder objects were made
    fin,                        \* the arguments of a direct computeOverscroll call
    fout                        \* the branch, locals and result of that call

vars == <<CONTENT_DISTANCE_STRETCHED, mBuilder, call, ret, coord, frag, nBuilders, fin, fout>>

(***************************************************************************)
(* Float arithmetic.                                                       *)
(***************************************************************************)
RECURSIVE Gcd(_, _)
Gcd(a, b) == IF b = 0 THEN a ELSE Gcd(b, a % b)

IntAbs(n) == IF n < 0 THEN -n ELSE n

NaN == <<0, 0>>

Float(n, d) ==
    IF d = 0 THEN NaN
    ELSE LET g == Gcd(IntAbs(n), IntAbs(d))
             s == IF d < 0 THEN -1 ELSE 1
         IN  <<(s * n) \div g, (s * d) \div g>>

IsFinite(a) == a[2] # 0

Zero == Float(0, 1)
One == Float(1, 1)

fadd(a, b) ==
    IF IsFinite(a) /\ IsFinite(b) THEN Float(a[1] * b[2] + b[1] * a[2], a[2] * b[2]) ELSE NaN

fsub(a, b) ==
    IF IsFinite(a) /\ IsFinite(b) THEN Float(a[1] * b[2] - b[1] * a[2], a[2] * b[2]) ELSE NaN

fmul(a, b) ==
    IF IsFinite(a) /\ IsFinite(b) THEN Float(a[1] * b[1], a[2] * b[2]) ELSE NaN

\* a / b; a zero divisor gives a non-finite value
fdiv(a, b) ==
    IF IsFinite(a) /\ IsFinite(b) THEN Float(a[1] * b[2], a[2] * b[1]) ELSE NaN

fneg(a) == IF IsFinite(a) THEN Float(-a[1], a[2]) ELSE NaN

\* comparisons; every comparison with a non-finite operand is false
flt(a, b) == IsFinite(a) /\ IsFinite(b) /\ a[1] * b[2] < b[1] * a[2]
fle(a, b) == IsFinite(a) /\ IsFinite(b) /\ a[1] * b[2] <= b[1] * a[2]
fgt(a, b) == flt(b, a)
fge(a, b) == fle(b, a)
feq(a, b) == IsFinite(a) /\ IsFinite(b) /\ a = b

\* abs(float)
abs(a) == IF IsFinite(a) THEN Float(IntAbs(a[1]), a[2]) ELSE NaN

(***************************************************************************)
(* The SkSL shader program (stretchShader).                                *)
(***************************************************************************)
\* the SkSL builtin mix(x, y, a) = x * (1 - a) + y * a
mix(x, y, a) == fadd(fmul(x, fsub(One, a)), fmul(y, a))

easeIn(t, d) == fmul(t, d)

\* computeOverscrollStart with offsetPos taken from the band's boundary upwards
computeOverscrollStartOffsetReversed(inPos, overscroll, uStretchAffectedDist, uInverseStretchAffectedDist, distStretched, interpolationStrength) ==
    LET offsetPos == fsub(inPos, uStretchAffectedDist)
        posBasedVariation ==
            mix(One, easeIn(offsetPos, uInverseStretchAffectedDist), interpolationStrength)
        stretchIntensity == fmul(overscroll, posBasedVariation)
        divisor == fadd(One, stretchIntensity)
    IN  [offsetPos |-> offsetPos,
         stretchIntensity |-> stretchIntensity,
         divisor |-> divisor,
         result |-> fsub(distStretched, fdiv(offsetPos, divisor))]

\* computeOverscrollStart: its locals, in order, and the value it returns (result)
computeOverscrollStart(inPos, overscroll, uStretchAffectedDist, uInverseStretchAffectedDist, distStretched, interpolationStrength) ==
    LET offsetPos == fsub(uStretchAffectedDist, inPos)
        posBasedVariation ==
            mix(One, easeIn(offsetPos, uInverseStretchAffectedDist), interpolationStrength)
        stretchIntensity == fmul(overscroll, posBasedVariation)
        divisor == fadd(One, stretchIntensity)
    IN  [offsetPos |-> offsetPos,
         stretchIntensity |-> stretchIntensity,
         divisor |-> divisor,
         result |-> fsub(distStretched, fdiv(offsetPos, divisor))]

\* computeOverscrollEnd with stretchIntensity = overscroll * posBasedVariation,
\* the sign of the overscroll not flipped
computeOverscrollEndUnflipped(inPos, overscroll, reverseStretchDist, uStretchAffectedDist, uInverseStretchAffectedDist, distStretched, interpolationStrength) ==
    LET offsetPos == fsub(inPos, reverseStretchDist)
        posBasedVariation ==
            mix(One, easeIn(offsetPos, uInverseStretchAffectedDist), interpolationStrength)
        stretchIntensity == fmul(overscroll, posBasedVariation)
        divisor == fadd(One, stretchIntensity)
    IN  [offsetPos |-> offsetPos,
         stretchIntensity |-> stretchIntensity,
         divisor |-> divisor,
         result |-> fsub(One, fsub(distStretched, fdiv(offsetPos, divisor)))]

\* computeOverscrollEnd: its locals, in order, and the value it returns (result)
computeOverscrollEnd(inPos, overscroll, reverseStretchDist, uStretchAffectedDist, uInverseStretchAffectedDist, distStretched, interpolationStrength) ==
    LET offsetPos == fsub(inPos, reverseStretchDist)
        posBasedVariation ==
            mix(One, easeIn(offsetPos, uInverseStretchAffectedDist), interpolationStrength)
        stretchIntensity == fmul(fneg(overscroll), posBasedVariation)
        divisor == fadd(One, stretchIntensity)
    IN  [offsetPos |-> offsetPos,
         stretchIntensity |-> stretchIntensity,
         divisor |-> divisor,
         result |-> fsub(One, fsub(distStretched, fdiv(offsetPos, divisor)))]

\* outPos = computeOverscrollStart(...) or computeOverscrollEnd(...): the branch,
\* the easing function's locals and the value assigned to outPos
easingBranch(branch, easing) ==
    [branch |-> branch, steps |-> easing, outPos |-> easing.result]

\* the easing locals of a run that took no easing branch
NoSteps == [offsetPos |-> Zero, stretchIntensity |-> Zero, divisor |-> One, result |-> Zero]

\* the block with the shift branch adding distanceStretched, not distanceDiff
overscrollPositiveBlockShiftByStretched(outPos, inPos, overscroll, uStretchAffectedDist, uInverseStretchAffectedDist, distStretched, distanceDiff, interpolationStrength) ==
    IF fgt(overscroll, Zero)
    THEN IF fle(inPos, uStretchAffectedDist)
         THEN easingBranch("start",
                   computeOverscrollStart(inPos, overscroll, uStretchAffectedDist,
                       uInverseStretchAffectedDist, distStretched, interpolationStrength))
         ELSE IF fge(inPos, distStretched)
              THEN [branch |-> "shiftStart", steps |-> NoSteps,
                    outPos |-> fadd(distStretched, inPos)]
              ELSE [branch |-> "none", steps |-> NoSteps, outPos |-> outPos]
    ELSE [branch |-> "none", steps |-> NoSteps, outPos |-> outPos]

\* What the block `if (overscroll > 0)` does to outPos: the branch taken, the
\* easing locals when the easing branch ran, and the new outPos.
overscrollPositiveBlock(outPos, inPos, overscroll, uStretchAffectedDist, uInverseStretchAffectedDist, distStretched, distanceDiff, interpolationStrength) ==
    IF fgt(overscroll, Zero)
    THEN IF fle(inPos, uStretchAffectedDist)
         THEN easingBranch("start",
                   computeOverscrollStart(inPos, overscroll, uStretchAffectedDist,
                       uInverseStretchAffectedDist, distStretched, interpolationStrength))
         ELSE IF fge(inPos, distStretched)
              THEN [branch |-> "shiftStart", steps |-> NoSteps,
                    outPos |-> fadd(distanceDiff, inPos)]
              ELSE [branch |-> "none", steps |-> NoSteps, outPos |-> outPos]
    ELSE [branch |-> "none", steps |-> NoSteps, outPos |-> outPos]

\* the block with the shift branch adding distanceDiff as the start edge does
overscrollNegativeBlockShiftAsStart(outPos, inPos, overscroll, uStretchAffectedDist, uInverseStretchAffectedDist, distStretched, distanceDiff, interpolationStrength) ==
    IF flt(overscroll, Zero)
    THEN LET stretchAffectedDist == fsub(One, uStretchAffectedDist)
         IN  IF fge(inPos, stretchAffectedDist)
             THEN easingBranch("end",
                       computeOverscrollEnd(inPos, overscroll, stretchAffectedDist,
                           uStretchAffectedDist, uInverseStretchAffectedDist,
                           distStretched, interpolationStrength))
             ELSE IF flt(inPos, stretchAffectedDist)
                  THEN [branch |-> "shiftEnd", steps |-> NoSteps,
                        outPos |-> fadd(distanceDiff, inPos)]
                  ELSE [branch |-> "none", steps |-> NoSteps, outPos |-> outPos]
    ELSE [branch |-> "none", steps |-> NoSteps, outPos |-> outPos]

\* What the block `if (overscroll < 0)` does to outPos.
overscrollNegativeBlock(outPos, inPos, overscroll, uStretchAffectedDist, uInverseStretchAffectedDist, distStretched, distanceDiff, interpolationStrength) ==
    IF flt(overscroll, Zero)
    THEN LET stretchAffectedDist == fsub(One, uStretchAffectedDist)
         IN  IF fge(inPos, stretchAffectedDist)
             THEN easingBranch("end",
                       computeOverscrollEnd(inPos, overscroll, stretchAffectedDist,
                           uStretchAffectedDist, uInverseStretchAffectedDist,
                           distStretched, interpolationStrength))
             ELSE IF flt(inPos, stretchAffectedDist)
                  THEN [branch |-> "shiftEnd", steps |-> NoSteps,
                        outPos |-> fadd(fneg(distanceDiff), inPos)]
                  ELSE [branch |-> "none", steps |-> NoSteps, outPos |-> outPos]
    ELSE [branch |-> "none", steps |-> NoSteps, outPos |-> outPos]

\* computeOverscroll with the branch it took: outPos starts as inPos and goes
\* through the two blocks in order.
computeOverscrollRun(inPos, overscroll, uStretchAffectedDist, uInverseStretchAffectedDist, distStretched, distanceDiff, interpolationStrength) ==
    LET p == overscrollPositiveBlock(inPos, inPos, overscroll, uStretchAffectedDist,
                 uInverseStretchAffectedDist, distStretched, distanceDiff,
                 interpolationStrength)
        n == overscrollNegativeBlock(p.outPos, inPos, overscroll, uStretchAffectedDist,
                 uInverseStretchAffectedDist, distStretched, distanceDiff,
                 interpolationStrength)
    IN  IF n.branch # "none" THEN n ELSE p

computeOverscroll(inPos, overscroll, uStretchAffectedDist, uInverseStretchAffectedDist, distStretched, distanceDiff, interpolationStrength) ==
    computeOverscrollRun(inPos, overscroll, uStretchAffectedDist, uInverseStretchAffectedDist,
        distStretched, distanceDiff, interpolationStrength).outPos

\* the end of one axis of main: the remapped position turned back into a pixel
\* coordinate, with the locals inU/inV and outU/outV
mainAxisEnd(inP, outP, viewport, uScroll) ==
    [inP |-> inP, outP |-> outP, c |-> fmul(fsub(outP, uScroll), viewport)]

\* the middle of one axis of main: the call of computeOverscroll
mainAxisRemap(inP, viewport, uScroll, uOverscroll, uStretchAffectedDist, uInverseDistanceStretched, uDistanceStretched, uDistDiff, uInterpolationStrength) ==
    mainAxisEnd(inP,
        computeOverscroll(inP, uOverscroll, uStretchAffectedDist, uInverseDistanceStretched,
            uDistanceStretched, uDistDiff, uInterpolationStrength),
        viewport, uScroll)

\* one axis of main: normalise the pixel coordinate, add the scroll position,
\* remap, and turn the result back into a pixel coordinate
mainAxis(c, viewport, uScroll, uOverscroll, uStretchAffectedDist, uInverseDistanceStretched, uDistanceStretched, uDistDiff, uInterpolationStrength) ==
    mainAxisRemap(fadd(fdiv(c, viewport), uScroll), viewport, uScroll, uOverscroll,
        uStretchAffectedDist, uInverseDistanceStretched, uDistanceStretched, uDistDiff,
        uInterpolationStrength)

\* what main leaves behind: its locals, the coordinate it ends with, and the
\* evaluation of uContentTexture it returns
mainEnd(U, V, uContentTexture) ==
    [inU |-> U.inP, inV |-> V.inP, outU |-> U.outP, outV |-> V.outP,
     coord |-> [x |-> U.c, y |-> V.c],
     sample |-> [texture |-> uContentTexture, x |-> U.c, y |-> V.c]]

\* main with outV computed from uOverscrollX
mainOverscrollXTwice(shader, xy) ==
    LET u == shader.uniforms
    IN  mainEnd(mainAxis(xy.x, u.viewportWidth, u.uScrollX, u.uOverscrollX,
                    u.uStretchAffectedDistX, u.uInverseDistanceStretchedX,
                    u.uDistanceStretchedX, u.uDistDiffX, u.uInterpolationStrength),
                mainAxis(xy.y, u.viewportHeight, u.uScrollY, u.uOverscrollX,
                    u.uStretchAffectedDistY, u.uInverseDistanceStretchedY,
                    u.uDistanceStretchedY, u.uDistDiffY, u.uInterpolationStrength),
                shader.child)

\* main(coord) of a shader made by makeShader
main(shader, xy) ==
    LET u == shader.uniforms
    IN  mainEnd(mainAxis(xy.x, u.viewportWidth, u.uScrollX, u.uOverscrollX,
                    u.uStretchAffectedDistX, u.uInverseDistanceStretchedX,
                    u.uDistanceStretchedX, u.uDistDiffX, u.uInterpolationStrength),
                mainAxis(xy.y, u.viewportHeight, u.uScrollY, u.uOverscrollY,
                    u.uStretchAffectedDistY, u.uInverseDistanceStretchedY,
                    u.uDistanceStretchedY, u.uDistDiffY, u.uInterpolationStrength),
                shader.child)

\* the thirteen uniforms of the transform that createSkShader sets
TransformUniforms ==
    {"uInterpolationStrength",
     "uStretchAffectedDistX", "uStretchAffectedDistY",
     "uDistanceStretchedX", "uDistanceStretchedY",
     "uInverseDistanceStretchedX", "uInverseDistanceStretchedY",
     "uDistDiffX", "uDistDiffY",
     "uOverscrollX", "uOverscrollY",
     "uScrollX", "uScrollY"}

ViewportUniforms == {"viewportWidth", "viewportHeight"}

\* the float uniforms the shader program declares
UniformNames == {"uMaxStretchIntensity"} \cup TransformUniforms \cup ViewportUniforms

(***************************************************************************)
(* StretchShaderFactory::createSkShader.                                   *)
(***************************************************************************)
INTERPOLATION_STRENGTH_VALUE == Float(7, 10)

\* a null mBuilder, and a null shader returned
nullptr == [null |-> TRUE]

\* the child slot of a builder before a child is assigned
NoChild == "no child"

\* StretchEffect::hasEffect()
hasEffect(stretchEffect) ==
    stretchEffect.vectorX # Zero \/ stretchEffect.vectorY # Zero

\* contentDistanceStretched / (1 + normOverScrollDist), the magnitude not taken
distanceStretchedSigned(contentDistanceStretched, normOverScrollDist) ==
    fdiv(contentDistanceStretched, fadd(One, normOverScrollDist))

\* StretchEffect::CONTENT_DISTANCE_STRETCHED / (1 + abs(normOverScrollDist))
distanceStretched(contentDistanceStretched, normOverScrollDist) ==
    fdiv(contentDistanceStretched, fadd(One, abs(normOverScrollDist)))

\* 1.f / StretchEffect::CONTENT_DISTANCE_STRETCHED
inverseDistanceStretched(contentDistanceStretched) ==
    fdiv(One, contentDistanceStretched)

\* the difference taken the other way round
diffReversed(contentDistanceStretched, distStretched) ==
    fsub(contentDistanceStretched, distStretched)

\* distanceStretched - StretchEffect::CONTENT_DISTANCE_STRETCHED
diff(contentDistanceStretched, distStretched) ==
    fsub(distStretched, contentDistanceStretched)

\* srcBounds.left / viewportWidth, srcBounds.top / viewportHeight
normalizedScroll(offset, viewport) == fdiv(offset, viewport)

\* the values createSkShader hands to the fifteen uniform(...).set calls
uniformValues(contentDistanceStretched, stretchEffect) ==
    LET distanceStretchedX == distanceStretched(contentDistanceStretched, stretchEffect.vectorX)
        distanceStretchedY == distanceStretched(contentDistanceStretched, stretchEffect.vectorY)
    IN  [uInterpolationStrength |-> INTERPOLATION_STRENGTH_VALUE,
         uStretchAffectedDistX |-> contentDistanceStretched,
         uStretchAffectedDistY |-> contentDistanceStretched,
         uDistanceStretchedX |-> distanceStretchedX,
         uDistanceStretchedY |-> distanceStretchedY,
         uInverseDistanceStretchedX |-> inverseDistanceStretched(contentDistanceStretched),
         uInverseDistanceStretchedY |-> inverseDistanceStretched(contentDistanceStretched),
         uDistDiffX |-> diff(contentDistanceStretched, distanceStretchedX),
         uDistDiffY |-> diff(contentDistanceStretched, distanceStretchedY),
         uOverscrollX |-> stretchEffect.vectorX,
         uOverscrollY |-> stretchEffect.vectorY,
         uScrollX |-> normalizedScroll(stretchEffect.mappedChildBounds.left,
                                       stretchEffect.width),
         uScrollY |-> normalizedScroll(stretchEffect.mappedChildBounds.top,
                                       stretchEffect.height),
         viewportWidth |-> stretchEffect.width,
         viewportHeight |-> stretchEffect.height]

(***************************************************************************)
(* Bounds and input sets.                                                  *)
(***************************************************************************)
\* vectorX, vectorY range over the halves in [-MaxVector/2, MaxVector/2]
MaxVector == 1
\* pixel coordinates range over 0 .. MaxCoord on each axis
MaxCoord == 2
\* computeOverscroll is called directly with an overscroll among the halves in
\* [-MaxOverscroll/2, MaxOverscroll/2]
MaxOverscroll == 2
\* and an inPos among the tenths in [-MaxOutside/10, 1 + MaxOutside/10]
MaxOutside == 2

Vectors == {Float(k, 2) : k \in -MaxVector .. MaxVector}
\* viewport sizes, and the left and top of the mapped child bounds
Viewports == {[width |-> Float(1, 1), height |-> Float(2, 1)], [width |-> Float(2, 1), height |-> Float(1, 1)]}
ChildBounds == {[left |-> Zero, top |-> Zero], [left |-> One, top |-> Zero], [left |-> Zero, top |-> One]}
Shaders == {"shaderA", "shaderB"}
Coords == {Float(k, 1) : k \in 0 .. MaxCoord}
\* the values of StretchEffect::CONTENT_DISTANCE_STRETCHED the model covers
StretchedDistances == {Float(3, 10), One}
\* what uniform data nothing has been written to may hold
UnsetValues == {Zero, One}

StretchEffects ==
    {[width |-> v.width, height |-> v.height, vectorX |-> x, vectorY |-> y,
      mappedChildBounds |-> b] :
        v \in Viewports, x \in Vectors, y \in Vectors, b \in ChildBounds}

Overscrolls == {Float(k, 2) : k \in -MaxOverscroll .. MaxOverscroll}
Positions == {Float(k, 10) : k \in -MaxOutside .. 10 + MaxOutside}
AffectedDists == {Float(3, 10), Float(1, 2), One}
Strengths == {Zero, INTERPOLATION_STRENGTH_VALUE, One, Float(2, 1)}

NoCall == [none |-> "call"]
NoFrag == [none |-> "fragment"]
NoCoord == [none |-> "coordinate"]
NoInput == [none |-> "input"]
NoResult == [none |-> "result"]

\* uniformValues over the inputs of the model, computed once
uniformValuesOf ==
    [c \in StretchedDistances |-> [e \in StretchEffects |-> uniformValues(c, e)]]

\* std::make_unique<SkRuntimeShaderBuilder>(instance.effect): no child, and
\* uniform data nothing has been written to yet
newBuilder(unset) ==
    [child |-> NoChild, uniforms |-> [u \in UniformNames |-> unset]]

\* the set calls with uScrollX and uScrollY left out
setAllButScroll(builder, inputShader, stretchEffect) ==
    [child |-> inputShader,
     uniforms |-> [u \in {"uScrollX", "uScrollY"} |-> builder.uniforms[u]]
                  @@ uniformValuesOf[CONTENT_DISTANCE_STRETCHED][stretchEffect]
                  @@ builder.uniforms]

\* mBuilder->child("uContentTexture") = inputShader and the fifteen
\* mBuilder->uniform(...).set(...); a uniform not set keeps its value
setAll(builder, inputShader, stretchEffect) ==
    [child |-> inputShader,
     uniforms |-> uniformValuesOf[CONTENT_DISTANCE_STRETCHED][stretchEffect]
                  @@ builder.uniforms]

\* mBuilder->makeShader(): a shader with a copy of the builder's uniforms and child
makeShader(builder) == [child |-> builder.child, uniforms |-> builder.uniforms]

\* createSkShader without the hasEffect test
createSkShaderAlways(builder, unset, inputShader, stretchEffect) ==
    LET b0 == IF builder = nullptr THEN newBuilder(unset) ELSE builder
        b1 == setAll(b0, inputShader, stretchEffect)
    IN  [mBuilder |-> b1, built |-> builder = nullptr, ret |-> makeShader(b1)]

\* createSkShader on a factory whose mBuilder is `builder`: the new mBuilder,
\* whether this call made the builder, and the value returned
createSkShaderRun(builder, unset, inputShader, stretchEffect) ==
    IF ~hasEffect(stretchEffect)
    THEN [mBuilder |-> builder, built |-> FALSE, ret |-> nullptr]
    ELSE LET b0 == IF builder = nullptr THEN newBuilder(unset) ELSE builder
             b1 == setAll(b0, inputShader, stretchEffect)
         IN  [mBuilder |-> b1, built |-> builder = nullptr, ret |-> makeShader(b1)]

(***************************************************************************)
(* Spec: a factory taking any sequence of createSkShader calls.            *)
(***************************************************************************)
Init ==
    /\ CONTENT_DISTANCE_STRETCHED \in StretchedDistances
    /\ mBuilder = nullptr
    /\ call = NoCall
    /\ ret = nullptr
    /\ coord = NoCoord
    /\ frag = NoFrag
    /\ nBuilders = 0
    /\ fin = NoInput
    /\ fout = NoResult

createSkShader(inputShader, stretchEffect) ==
    \E unset \in (IF mBuilder = nullptr THEN UnsetValues ELSE {Zero}) :
        \E r \in {createSkShaderRun(mBuilder, unset, inputShader, stretchEffect)} :
            /\ mBuilder' = r.mBuilder
            /\ ret' = r.ret
            /\ nBuilders' = IF r.built THEN nBuilders + 1 ELSE nBuilders
            /\ call' = [inputShader |-> inputShader, stretchEffect |-> stretchEffect,
                        built |-> r.built]
            /\ UNCHANGED <<CONTENT_DISTANCE_STRETCHED, coord, frag, fin, fout>>

Next ==
    \E inputShader \in Shaders, stretchEffect \in StretchEffects :
        createSkShader(inputShader, stretchEffect)

Spec == Init /\ [][Next]_vars

(***************************************************************************)
(* SpecMain: a factory's first createSkShader call, and the shader it      *)
(* returned run on pixel coordinates.                                      *)
(***************************************************************************)
firstCall(inputShader, stretchEffect) ==
    /\ call = NoCall
    /\ createSkShader(inputShader, stretchEffect)

runMain(x, y) ==
    /\ ret # nullptr
    /\ coord' = [x |-> x, y |-> y]
    /\ frag' = main(ret, coord')
    /\ UNCHANGED <<CONTENT_DISTANCE_STRETCHED, mBuilder, call, ret, nBuilders, fin, fout>>

NextMain ==
    \/ \E inputShader \in Shaders, stretchEffect \in StretchEffects :
           firstCall(inputShader, stretchEffect)
    \/ \E x \in Coords, y \in Coords : runMain(x, y)

SpecMain == Init /\ [][NextMain]_vars

(***************************************************************************)
(* SpecFn: computeOverscroll called once on arguments drawn from the       *)
(* input sets; each of uInverseStretchAffectedDist, distanceStretched and  *)
(* distanceDiff is either what createSkShader derives or another value.    *)
(***************************************************************************)
InitFn ==
    /\ CONTENT_DISTANCE_STRETCHED = One
    /\ mBuilder = nullptr
    /\ call = NoCall
    /\ ret = nullptr
    /\ coord = NoCoord
    /\ frag = NoFrag
    /\ nBuilders = 0
    /\ fout = NoResult
    /\ \E p \in Positions, v \in Overscrolls, a \in AffectedDists, s \in Strengths :
         \E i \in {inverseDistanceStretched(a), Float(-1, 1)},
            d \in {distanceStretched(a, v), Float(3, 5)} :
           \E dd \in {diff(a, d), Float(-1, 10)} :
             fin = [inPos |-> p, overscroll |-> v, uStretchAffectedDist |-> a,
                    uInverseStretchAffectedDist |-> i, distanceStretched |-> d,
                    distanceDiff |-> dd, interpolationStrength |-> s]

remap ==
    /\ fout = NoResult
    /\ fout' = computeOverscrollRun(fin.inPos, fin.overscroll, fin.uStretchAffectedDist,
                   fin.uInverseStretchAffectedDist, fin.distanceStretched,
                   fin.distanceDiff, fin.interpolationStrength)
    /\ UNCHANGED <<CONTENT_DISTANCE_STRETCHED, mBuilder, call, ret, coord, frag, nBuilders, fin>>

NextFn == remap

SpecFn == InitFn /\ [][NextFn]_vars

(***************************************************************************)
(* Properties of computeOverscroll, under SpecFn.                          *)
(***************************************************************************)
\* a direct call of computeOverscroll has returned
Returned == fout # NoResult

\* the call's distances are the ones createSkShader derives from its overscroll
\* and its affected distance
DerivedDistances ==
    /\ fin.uInverseStretchAffectedDist = inverseDistanceStretched(fin.uStretchAffectedDist)
    /\ fin.distanceStretched = distanceStretched(fin.uStretchAffectedDist, fin.overscroll)
    /\ fin.distanceDiff = diff(fin.uStretchAffectedDist, fin.distanceStretched)

\* ... and so is its interpolation strength
DerivedByFactory ==
    DerivedDistances /\ fin.interpolationStrength = INTERPOLATION_STRENGTH_VALUE

StrengthInUnitRange ==
    fle(Zero, fin.interpolationStrength) /\ fle(fin.interpolationStrength, One)

\* computeOverscroll on the call's parameters with another position and overscroll
remapAt(inPos, overscroll) ==
    computeOverscrollRun(inPos, overscroll, fin.uStretchAffectedDist, fin.uInverseStretchAffectedDist, fin.distanceStretched, fin.distanceDiff, fin.interpolationStrength)

\* C2: with distances derived from |overscroll| and a strength in [0, 1], a call
\* with overscroll v > 0 at p returns 1 - computeOverscroll(1 - p, -v, ...): the
\* start edge and the end edge mirror each other, in the eased band and in the
\* shifted part.
C2_MirrorSymmetry ==
    (Returned /\ DerivedDistances /\ StrengthInUnitRange /\ fgt(fin.overscroll, Zero)) =>
        feq(fout.outPos,
            fsub(One, remapAt(fsub(One, fin.inPos), fneg(fin.overscroll)).outPos))

C2_Witness ==
    /\ Returned /\ DerivedDistances /\ StrengthInUnitRange /\ fgt(fin.overscroll, Zero)
    /\ fout.branch = "start"
    /\ fgt(fout.steps.offsetPos, Zero)
    /\ remapAt(fsub(One, fin.inPos), fneg(fin.overscroll)).branch = "end"

\* C3: with the factory's parameters and overscroll > 0, the call at
\* inPos = affectedDist takes the easing branch with offsetPos = 0 and returns
\* distanceStretched, which is what the shift formula distanceDiff + inPos gives.
C3_ContinuityAtBoundary ==
    (Returned /\ DerivedByFactory /\ fgt(fin.overscroll, Zero)
        /\ fin.inPos = fin.uStretchAffectedDist) =>
        /\ fout.branch = "start"
        /\ fout.steps.offsetPos = Zero
        /\ feq(fout.outPos, fin.distanceStretched)
        /\ feq(fout.outPos, fadd(fin.distanceDiff, fin.inPos))

C3_Witness ==
    /\ Returned /\ DerivedByFactory /\ fgt(fin.overscroll, Zero)
    /\ fin.inPos = fin.uStretchAffectedDist
    /\ fin.uStretchAffectedDist = Float(3, 10) /\ fin.overscroll = Float(1, 2)
    /\ fout.outPos = Float(1, 5)

\* C4 as stated: with the factory's parameters and overscroll > 0, every inPos
\* with inPos >= distanceStretched is mapped to distanceDiff + inPos.
C4_ShiftFromDistanceStretched ==
    (Returned /\ DerivedByFactory /\ fgt(fin.overscroll, Zero)
        /\ fge(fin.inPos, fin.distanceStretched)) =>
        feq(fout.outPos, fadd(fin.distanceDiff, fin.inPos))

\* C4, amended: with the factory's parameters and overscroll > 0, every inPos
\* with inPos >= affectedDist is mapped to distanceDiff + inPos (by the shift
\* branch above affectedDist); an inPos with distanceStretched <= inPos <
\* affectedDist is in the eased band, and is mapped by the easing transform to a
\* value above distanceDiff + inPos.
C4_ShiftFromAffectedDist ==
    (Returned /\ DerivedByFactory /\ fgt(fin.overscroll, Zero)) =>
        /\ fge(fin.inPos, fin.uStretchAffectedDist) =>
               feq(fout.outPos, fadd(fin.distanceDiff, fin.inPos))
        /\ fgt(fin.inPos, fin.uStretchAffectedDist) => fout.branch = "shiftStart"
        /\ (fge(fin.inPos, fin.distanceStretched)
               /\ flt(fin.inPos, fin.uStretchAffectedDist)) =>
               /\ fout.branch = "start"
               /\ fout.outPos = fout.steps.result
               /\ fgt(fout.outPos, fadd(fin.distanceDiff, fin.inPos))

C4_Witness ==
    /\ Returned /\ DerivedByFactory /\ fgt(fin.overscroll, Zero)
    /\ fin.inPos = One /\ fin.uStretchAffectedDist = Float(3, 10)
    /\ fout.branch = "shiftStart"
    /\ fout.outPos = fadd(fin.distanceDiff, One)

\* C5: with the factory's parameters and overscroll # 0, computeOverscroll is
\* monotonic within a region: a later position that takes the same branch is
\* not mapped below this one.
C5_MonotonicWithinRegion ==
    (Returned /\ DerivedByFactory /\ fin.overscroll # Zero) =>
        \A p2 \in Positions :
            (flt(fin.inPos, p2) /\ remapAt(p2, fin.overscroll).branch = fout.branch) =>
                fle(fout.outPos, remapAt(p2, fin.overscroll).outPos)

C5_Witness ==
    /\ Returned /\ DerivedByFactory /\ flt(fin.overscroll, Zero)
    /\ fout.branch = "end"
    /\ \E p2 \in Positions :
          /\ flt(fin.inPos, p2)
          /\ remapAt(p2, fin.overscroll).branch = "end"
          /\ flt(fout.outPos, remapAt(p2, fin.overscroll).outPos)

\* C9: with distances derived by createSkShader from an overscroll in [-1, 1]
\* and an affected distance of at most 1, and a strength in [0, 1], an inPos in
\* [0, 1] is mapped into [0, 1]; the pulled edge is a fixed point and the
\* opposite edge moves inward by |distanceDiff|.
C9_BoundedOutput ==
    (Returned /\ DerivedDistances /\ StrengthInUnitRange
        /\ fle(abs(fin.overscroll), One)
        /\ fgt(fin.uStretchAffectedDist, Zero) /\ fle(fin.uStretchAffectedDist, One)
        /\ fle(Zero, fin.inPos) /\ fle(fin.inPos, One)) =>
        /\ fle(Zero, fout.outPos) /\ fle(fout.outPos, One)
        /\ (fgt(fin.overscroll, Zero) /\ fin.inPos = Zero) => fout.outPos = Zero
        /\ (flt(fin.overscroll, Zero) /\ fin.inPos = One) => fout.outPos = One
        /\ (fgt(fin.overscroll, Zero) /\ fin.inPos = One) =>
               fout.outPos = fsub(One, abs(fin.distanceDiff))
        /\ (flt(fin.overscroll, Zero) /\ fin.inPos = Zero) =>
               fout.outPos = abs(fin.distanceDiff)

C9_Witness ==
    /\ Returned /\ DerivedDistances /\ StrengthInUnitRange
    /\ fin.overscroll = Float(-1, 1) /\ fin.inPos = Zero
    /\ fin.uStretchAffectedDist = One
    /\ fout.outPos = Float(1, 2)

\* C10: whenever an easing branch ran with affectedDist > 0, invAffectedDist =
\* 1 / affectedDist and a strength in [0, 1], offsetPos >= 0 and
\* stretchIntensity >= 0, so the divisor 1 + stretchIntensity is at least 1 and
\* the result is finite, whatever inPos, overscroll and the distances are.
C10_NoSingularity ==
    (Returned /\ fout.branch \in {"start", "end"}
        /\ fgt(fin.uStretchAffectedDist, Zero)
        /\ fin.uInverseStretchAffectedDist = fdiv(One, fin.uStretchAffectedDist)
        /\ StrengthInUnitRange) =>
        /\ fge(fout.steps.offsetPos, Zero)
        /\ fge(fout.steps.stretchIntensity, Zero)
        /\ fge(fout.steps.divisor, One)
        /\ fout.steps.divisor # Zero
        /\ IsFinite(fout.outPos)

C10_Witness ==
    /\ Returned /\ fout.branch = "end"
    /\ fin.uInverseStretchAffectedDist = fdiv(One, fin.uStretchAffectedDist)
    /\ StrengthInUnitRange
    /\ fgt(fin.inPos, One)
    /\ ~DerivedDistances
    /\ fgt(fout.steps.stretchIntensity, Zero)

\* the singularity itself: an easing branch whose divisor is zero
SingularityReached ==
    Returned /\ fout.branch \in {"start", "end"} /\ fout.steps.divisor = Zero

(***************************************************************************)
(* Properties of main, under SpecMain.                                     *)
(***************************************************************************)
\* parameter values no factory derives, for calls with overscroll == 0
OtherParameters ==
    [uStretchAffectedDist : {Float(3, 10), One},
     uInverseStretchAffectedDist : {Float(-1, 1)},
     distanceStretched : {Float(1, 5), Float(3, 5)},
     distanceDiff : {Float(-1, 10), Float(1, 2)},
     interpolationStrength : {INTERPOLATION_STRENGTH_VALUE, Float(2, 1)}]

\* C1: computeOverscroll with overscroll == 0 returns inPos, whatever the other
\* parameters are; main computes each axis from that axis' uniforms alone, so
\* an axis whose overscroll is 0 keeps its input coordinate (the scroll offset
\* added and subtracted again) while the other axis is remapped.
C1_IdentityOnUnaffectedAxis ==
    frag # NoFrag =>
        LET u == ret.uniforms
        IN  /\ u.uOverscrollX = Zero => (frag.outU = frag.inU /\ frag.coord.x = coord.x)
            /\ u.uOverscrollY = Zero => (frag.outV = frag.inV /\ frag.coord.y = coord.y)
            /\ frag.outU = computeOverscroll(frag.inU, u.uOverscrollX,
                               u.uStretchAffectedDistX, u.uInverseDistanceStretchedX,
                               u.uDistanceStretchedX, u.uDistDiffX, u.uInterpolationStrength)
            /\ frag.outV = computeOverscroll(frag.inV, u.uOverscrollY,
                               u.uStretchAffectedDistY, u.uInverseDistanceStretchedY,
                               u.uDistanceStretchedY, u.uDistDiffY, u.uInterpolationStrength)
            /\ \A o \in OtherParameters :
                   /\ computeOverscroll(frag.inU, Zero, o.uStretchAffectedDist,
                          o.uInverseStretchAffectedDist, o.distanceStretched,
                          o.distanceDiff, o.interpolationStrength) = frag.inU
                   /\ computeOverscrollRun(frag.inV, Zero, o.uStretchAffectedDist,
                          o.uInverseStretchAffectedDist, o.distanceStretched,
                          o.distanceDiff, o.interpolationStrength).branch = "none"

C1_Witness ==
    /\ frag # NoFrag
    /\ ret.uniforms.uOverscrollX = Zero
    /\ ret.uniforms.uOverscrollY # Zero
    /\ ret.uniforms.uScrollX # Zero
    /\ frag.coord.x = coord.x
    /\ frag.outV # frag.inV

(***************************************************************************)
(* Properties of createSkShader, under Spec.                               *)
(***************************************************************************)
\* the last call was made with an effect that has an effect
CalledWithEffect == call # NoCall /\ hasEffect(call.stretchEffect)

\* C6: after a call with hasEffect() true the returned shader's uniforms are,
\* per axis, distanceStretched = CONTENT_DISTANCE_STRETCHED / (1 + |vector|),
\* inverseDistanceStretched = 1 / CONTENT_DISTANCE_STRETCHED, distDiff =
\* distanceStretched - CONTENT_DISTANCE_STRETCHED, scroll = left / width and
\* top / height, interpolationStrength = 7/10; so 0 < distanceStretched <=
\* CONTENT_DISTANCE_STRETCHED and distDiff <= 0, with distDiff = 0 exactly when
\* the axis' vector is 0.
C6_ParameterDerivation ==
    CalledWithEffect =>
        /\ ret # nullptr
        /\ LET u == ret.uniforms
               e == call.stretchEffect
               C == CONTENT_DISTANCE_STRETCHED
           IN  /\ u.uDistanceStretchedX = fdiv(C, fadd(One, abs(e.vectorX)))
               /\ u.uDistanceStretchedY = fdiv(C, fadd(One, abs(e.vectorY)))
               /\ u.uInverseDistanceStretchedX = fdiv(One, C)
               /\ u.uInverseDistanceStretchedY = fdiv(One, C)
               /\ u.uDistDiffX = fsub(u.uDistanceStretchedX, C)
               /\ u.uDistDiffY = fsub(u.uDistanceStretchedY, C)
               /\ u.uScrollX = fdiv(e.mappedChildBounds.left, e.width)
               /\ u.uScrollY = fdiv(e.mappedChildBounds.top, e.height)
               /\ u.uInterpolationStrength = Float(7, 10)
               /\ flt(Zero, u.uDistanceStretchedX) /\ fle(u.uDistanceStretchedX, C)
               /\ flt(Zero, u.uDistanceStretchedY) /\ fle(u.uDistanceStretchedY, C)
               /\ fle(u.uDistDiffX, Zero) /\ fle(u.uDistDiffY, Zero)
               /\ u.uDistDiffX = Zero <=> e.vectorX = Zero
               /\ u.uDistDiffY = Zero <=> e.vectorY = Zero

C6_Witness ==
    /\ CalledWithEffect
    /\ call.stretchEffect.vectorX = Float(-1, 2)
    /\ call.stretchEffect.vectorY = Zero
    /\ call.stretchEffect.mappedChildBounds.left = One
    /\ call.stretchEffect.width = Float(2, 1)
    /\ CONTENT_DISTANCE_STRETCHED = Float(3, 10)
    /\ ret.uniforms.uDistanceStretchedX = Float(1, 5)
    /\ ret.uniforms.uDistDiffX = Float(-1, 10)
    /\ ret.uniforms.uDistDiffY = Zero
    /\ ret.uniforms.uScrollX = Float(1, 2)

\* C7: a call whose effect has no effect returns nullptr and leaves mBuilder as
\* it was: no builder is made, no uniform and no child is changed.
C7_NoEffectShortcut ==
    [][(call' # NoCall /\ ~hasEffect(call'.stretchEffect)) =>
          (ret' = nullptr /\ mBuilder' = mBuilder /\ nBuilders' = nBuilders)]_vars

C7_Witness ==
    /\ call # NoCall /\ ~hasEffect(call.stretchEffect)
    /\ ret = nullptr
    /\ mBuilder # nullptr
    /\ mBuilder.child # call.inputShader
    /\ mBuilder.uniforms.viewportWidth # call.stretchEffect.width

\* what a factory that was never called before returns for a call
freshReturn(unset, inputShader, stretchEffect) ==
    createSkShaderRun(nullptr, unset, inputShader, stretchEffect).ret

\* C8: whatever calls came before, the shader a call with hasEffect() true
\* returns has the child and the thirteen transform and two viewport uniforms
\* that a factory never called before returns for the same arguments; the
\* builder is made at most once.
C8_NoStateCarriesOver ==
    /\ nBuilders <= 1
    /\ (mBuilder = nullptr) <=> (nBuilders = 0)
    /\ CalledWithEffect =>
          \A unset \in UnsetValues :
              LET fresh == freshReturn(unset, call.inputShader, call.stretchEffect)
              IN  /\ ret # nullptr /\ fresh # nullptr
                  /\ ret.child = call.inputShader /\ ret.child = fresh.child
                  /\ \A n \in TransformUniforms \cup ViewportUniforms :
                         ret.uniforms[n] = fresh.uniforms[n]

C8_Witness ==
    /\ CalledWithEffect
    /\ ~call.built
    /\ nBuilders = 1
    /\ Cardinality(TransformUniforms) = 13
    /\ ret.uniforms.uMaxStretchIntensity = One

====
